---- MODULE Spec2Model ----
(***************************************************************************)
(* ListGroupsService (list.groups.service.ts): the list-group synthesizer. *)
(* Storage is the ListGroup table and the Filter table; the pipeline       *)
(* stages and the project members are owned by collaborators and change    *)
(* under the service.  generateGroups is modelled await by await, so that  *)
(* other requests interleave exactly where the event loop lets them.       *)
(***************************************************************************)
EXTENDS Integers, Sequences, FiniteSets, TLC

VARIABLES
    listGroups,   \* rows of the ListGroup table
    filters,      \* rows of the Filter table
    stages,       \* pipeline stages (ListStagesService)
    users,        \* project members (UsersService)
    calls,        \* the generateGroups requests in flight, one per slot
    nextId,       \* next value of the ListGroup id sequence
    nextFilterId, \* next value of the Filter id sequence
    budget,       \* requests, collaborator changes and failures still to come
    workload,     \* what the clients of this run ask for
    found,        \* what the last findAll request returned
    reply,        \* what the last findOne or update request returned
    gen           \* history: what happened around each generateGroups request

vars == <<listGroups, filters, stages, users, calls, nextId, nextFilterId,
          budget, workload, found, reply, gen>>

---------------------------------------------------------------------------
(* Bounds *)

\* requests, collaborator changes and failures in one behaviour of Spec
MaxEvents == 3

\* the same, in one behaviour of RaceSpec
MaxRaceEvents == 2

\* the same, in one behaviour of ClientSpec
MaxClientEvents == 3

---------------------------------------------------------------------------
(* Domains *)

Lists == {1, 2}
Slots == {1, 2}
Strategies == {"ALL", "LIST_STAGE", "ASSIGNEES", "DUE_DATE"}
StageNames == {"Todo", "Done"}
LastNames == {"Lee", "Kim"}

\* SQL NULL / JS null in a numeric column, and in a text column
Null == 0
NullStr == "null"

\* a JS object has the fields that were set; reading another gives undefined
Has(dto, f) == f \in DOMAIN dto

\* x === dto[f]: null and undefined are different values
StrictEq(x, dto, f, null) == Has(dto, f) /\ x = dto[f]

\* x == dto[f] where x was read from the database (never undefined):
\* null == undefined holds, and undefined equals nothing else
LooseEq(x, dto, f, null) == IF Has(dto, f) THEN x = dto[f] ELSE x = null

\* a column written from dto[f]: undefined leaves the column's default
Column(dto, f, default) == IF Has(dto, f) THEN dto[f] ELSE default

Condition(field, operator, value) ==
    [where |-> [and |-> <<[field |-> field, operator |-> operator, value |-> value]>>]]

---------------------------------------------------------------------------
(* Collaborators *)

StageLeq(s, t) == s.order < t.order \/ (s.order = t.order /\ s.id <= t.id)

RECURSIVE StageSeq(_)
\* the stages of S in stage order
StageSeq(S) ==
    IF S = {} THEN <<>>
    ELSE LET first == CHOOSE s \in S : \A t \in S : StageLeq(s, t)
         IN  <<first>> \o StageSeq(S \ {first})

\* listStagesService.findAll({listId}): the list's stages in stage order
StagesFindAll(l) == StageSeq({s \in stages : s.listId = l})

\* listStagesService.findBy({where: {listId, isCompleted}})
StagesFindBy(l, completed) ==
    {s \in stages : s.listId = l /\ s.isCompleted = completed}

RECURSIVE Orderings(_)
\* the sequences that list the set S, in any order
Orderings(S) ==
    IF S = {} THEN {<<>>}
    ELSE UNION {{<<m>> \o t : t \in Orderings(S \ {m})} : m \in S}

\* usersService.findAll({where: ...lists: {id: listId}}).users: the lookup
\* states no order
UsersFindAll(l) == Orderings({u \in users : l \in u.lists})

---------------------------------------------------------------------------
(* findAll *)

\* where the database puts NULL in an ascending order: last
NullsLast(g, h) == h.order = Null

\* ORDER BY listGroup.order DESC
OrderGeq(g, h) == g.order = Null \/ (h.order # Null /\ g.order >= h.order)

\* ORDER BY listGroup.order ASC
OrderLeq(g, h) == NullsLast(g, h) \/ (g.order # Null /\ g.order <= h.order)

\* LEFT JOIN filter ON filter.entityId = listGroup.id AND filter.entityType = LIST_GROUP
JoinFilter(g) ==
    LET fs == {f \in filters : f.entityId = g.id /\ f.entityType = "LIST_GROUP"}
        row(f) == [id |-> g.id, listId |-> g.listId, type |-> g.type, name |-> g.name,
                   entityId |-> g.entityId, entityType |-> g.entityType,
                   color |-> g.color, icon |-> g.icon, order |-> g.order,
                   isExpanded |-> g.isExpanded, filter |-> f]
    IN  IF fs = {} THEN {row(<<>>)} ELSE {row(<<f>>) : f \in fs}

RECURSIVE QueryRows(_)
QueryRows(S) ==
    IF S = {} THEN {<<>>}
    ELSE LET least == {m \in S : \A h \in S : OrderLeq(m, h)}
         IN  UNION {{<<r>> \o t : r \in JoinFilter(m), t \in QueryRows(S \ {m})}
                    : m \in least}

\* the WHERE clause without andWhere("listGroup.type = :groupBy")
FindAllWhereList(listId, groupBy) == {g \in listGroups : g.listId = listId}

\* groupBy is a strategy, or "" when the caller gave none
FindAllWhere(listId, groupBy) ==
    {g \in listGroups : g.listId = listId /\ (groupBy # "" => g.type = groupBy)}

\* the results findAll may return
findAll(listId, groupBy) == QueryRows(FindAllWhere(listId, groupBy))

---------------------------------------------------------------------------
(* Strategies *)

DEFAULT_GROUP == [name |-> "All", type |-> "ALL"]

StageGroup(stage) ==
    [entityId |-> stage.id, entityType |-> "LIST_STAGE", type |-> "LIST_STAGE",
     name |-> stage.name,
     filter |-> Condition("cardLists.listStageId", "eq", <<"num", stage.id>>),
     color |-> stage.color, order |-> stage.order]

generateGroupsByListStage(listId) ==
    LET found_stages == StagesFindAll(listId)
    IN  [i \in 1..Len(found_stages) |-> StageGroup(found_stages[i])]

UserGroup(user, index) ==
    [entityId |-> user.id, entityType |-> "USER", type |-> "ASSIGNEES",
     name |-> user.firstName \o " " \o user.lastName, icon |-> user.photo,
     filter |-> Condition("users.id", "eq", <<"num", user.id>>),
     order |-> index + 1]

NoAssignee ==
    [entityId |-> Null, entityType |-> NullStr, type |-> "ASSIGNEES",
     name |-> "No Assignee",
     filter |-> Condition("users.id", "isNull", <<"null">>)]

\* the user groups without the "No Assignee" group
generateGroupsByAssigneesOnly(found_users) ==
    [i \in 1..Len(found_users) |-> UserGroup(found_users[i], i - 1)]

\* found_users is what the user lookup returned; index is 0-based in the code
generateGroupsByAssignees(found_users) ==
    [i \in 1..Len(found_users) |-> UserGroup(found_users[i], i - 1)] \o <<NoAssignee>>

DueDateGroups ==
    << [type |-> "DUE_DATE", name |-> "Past Due",
        filter |-> Condition("card.dueAt", "lt", <<"str", ":startOfDay">>),
        icon |-> "mdi-clock-time-eight", color |-> "error", order |-> 1],
       [type |-> "DUE_DATE", name |-> "Today",
        filter |-> Condition("card.dueAt", "between", <<"list", ":startOfDay", ":endOfDay">>),
        icon |-> "mdi-clock-time-twelve", color |-> "info", order |-> 2],
       [type |-> "DUE_DATE", name |-> "Upcoming",
        filter |-> Condition("card.dueAt", "gt", <<"str", ":endOfDay">>),
        icon |-> "mdi-clock-time-four", color |-> "default", order |-> 3],
       [type |-> "DUE_DATE", name |-> "No Due Date",
        filter |-> Condition("card.dueAt", "isNull", <<"null">>),
        icon |-> "mdi-clock-time-six-outline", color |-> "default", order |-> 4] >>

\* the due-date groups without "No Due Date"
generateGroupsByDueDateShort == SubSeq(DueDateGroups, 1, 3)

generateGroupsByDueDate == DueDateGroups

---------------------------------------------------------------------------
(* Reconciliation *)

\* a predicate that matches only a group that has its filter
MatchesWithFilter(group, generatedGroup) ==
    /\ LooseEq(group.entityId, generatedGroup, "entityId", Null)
    /\ LooseEq(group.entityType, generatedGroup, "entityType", NullStr)
    /\ group.name = generatedGroup.name
    /\ group.filter # <<>>

\* the predicate of existingGroups.find(...)
Matches(group, generatedGroup) ==
    /\ LooseEq(group.entityId, generatedGroup, "entityId", Null)
    /\ LooseEq(group.entityType, generatedGroup, "entityType", NullStr)
    /\ group.name = generatedGroup.name

Check(existingGroups, generatedGroup) ==
    \E i \in 1..Len(existingGroups) : Matches(existingGroups[i], generatedGroup)

\* a row that is stored collapsed
NewGroupCollapsed(id, generatedGroup, groupBy, listId) ==
    [id |-> id, listId |-> listId, type |-> groupBy, name |-> generatedGroup.name,
     entityId |-> Column(generatedGroup, "entityId", Null),
     entityType |-> Column(generatedGroup, "entityType", NullStr),
     color |-> Column(generatedGroup, "color", NullStr),
     icon |-> Column(generatedGroup, "icon", NullStr),
     order |-> Column(generatedGroup, "order", Null),
     isExpanded |-> FALSE]

\* the row repository.save writes for
\* {...generatedGroup, isExpanded: true, type: groupBy, listId}
NewGroup(id, generatedGroup, groupBy, listId) ==
    [id |-> id, listId |-> listId, type |-> groupBy, name |-> generatedGroup.name,
     entityId |-> Column(generatedGroup, "entityId", Null),
     entityType |-> Column(generatedGroup, "entityType", NullStr),
     color |-> Column(generatedGroup, "color", NullStr),
     icon |-> Column(generatedGroup, "icon", NullStr),
     order |-> Column(generatedGroup, "order", Null),
     isExpanded |-> TRUE]

\* the row filtersService.create writes
NewFilter(id, groupId, generatedGroup) ==
    [id |-> id, entityId |-> groupId, entityType |-> "LIST_GROUP",
     where |-> generatedGroup.filter.where]

---------------------------------------------------------------------------
(* State *)

Idle ==
    [pc |-> "idle", listId |-> 0, groupBy |-> "", ignoreCompleted |-> FALSE,
     existingGroups |-> <<>>, cardGroups |-> <<>>, task |-> <<>>,
     gid |-> <<>>, fid |-> <<>>, finalGroups |-> <<>>, err |-> ""]

Stage(id, listId, name, order, isCompleted) ==
    [id |-> id, listId |-> listId, name |-> name, color |-> "grey",
     order |-> order, isCompleted |-> isCompleted]

User(id, lists, lastName) ==
    [id |-> id, lists |-> lists, firstName |-> "Ann", lastName |-> lastName,
     photo |-> "ann.png"]

\* no findOne or update request has returned yet
NoReply == [op |-> "", status |-> "", group |-> <<>>]

\* the request returned this group
Returned(op, listGroup) == [op |-> op, status |-> "ok", group |-> <<listGroup>>]

\* lines 345-347: the request threw NotFoundException
NotFound(op) == [op |-> op, status |-> "NotFound", group |-> <<>>]

\* settled: the (list, strategy) pairs generated by an undisturbed request,
\*          with no update of their groups and no change of their stages or
\*          users since
\* clean:   the request has run without a step of anything else so far
\* follows: the request started on a settled pair
\* updated: the (list, strategy) pairs with a group changed by update
\* direct:  the (list, strategy) pairs with a group created by a client
NoHistory == [settled |-> {}, clean |-> [c \in Slots |-> FALSE],
              follows |-> [c \in Slots |-> FALSE], updated |-> {}, direct |-> {}]

\* an empty ListGroup table over the stages and members of a small project
Start ==
    /\ listGroups = {}
    /\ filters = {}
    /\ stages = {Stage(1, 1, "Todo", 1, FALSE), Stage(2, 1, "Done", 2, TRUE)}
    /\ users = {User(1, {1}, "Lee")}
    /\ calls = [c \in Slots |-> Idle]
    /\ nextId = 1
    /\ nextFilterId = 1
    /\ found = <<>>
    /\ reply = NoReply
    /\ gen = NoHistory

\* a task of the fan-out: the promise built for one generated group
Pending(call) == {i \in 1..Len(call.task) : call.task[i] \in {"saving", "filtering"}}
Failed(call) == {i \in 1..Len(call.task) : call.task[i] \in {"saveFailed", "filterFailed"}}

\* every promise of the fan-out has resolved: Promise.allSettled returns
AllSettled(call) ==
    \A i \in 1..Len(call.task) : call.task[i] \in {"exists", "resolved"}

\* the request waits on a promise that nothing will ever resolve
Hung(call) == call.pc = "fanout" /\ Pending(call) = {} /\ Failed(call) # {}

InFlight(call) == call.pc \in {"strategy", "fanout", "stagelookup"} /\ ~Hung(call)

Free(c) ==
    /\ calls[c].pc \in {"idle", "done", "error"}
    /\ \A d \in Slots : d < c => calls[d].pc \notin {"idle", "done", "error"}

\* no generateGroups request is between two of its awaits
Quiet == \A c \in Slots : ~InFlight(calls[c])

\* the run lets a new request, or a change of the stages or users, in
Admit == workload.overlap \/ Quiet

\* history: a step of request c (c = 0: of anything else)
Step(c) == [gen EXCEPT !.clean = [d \in Slots |-> gen.clean[d] /\ d = c]]

\* history: request c returns its groups
Settle(c) ==
    IF gen.clean[c]
    THEN [Step(c) EXCEPT !.settled = @ \cup {<<calls[c].listId, calls[c].groupBy>>}]
    ELSE Step(c)

\* history: the groups, stages or users behind these pairs change
Unsettle(pairs) == [Step(0) EXCEPT !.settled = @ \ pairs]

Event == budget > 0 /\ budget' = budget - 1

---------------------------------------------------------------------------
(* generateGroups *)

\* lines 76-84: the request arrives and the first findAll answers
StartGenerate(c, listId, ignoreCompleted, groupBy) ==
    /\ Admit
    /\ listId \in workload.lists /\ groupBy = workload.groupBy
    /\ Free(c)
    /\ Event
    /\ \E rows \in findAll(listId, groupBy) :
          calls' = [calls EXCEPT ![c] =
                      [Idle EXCEPT !.pc = "strategy", !.listId = listId,
                                   !.groupBy = groupBy,
                                   !.ignoreCompleted = ignoreCompleted,
                                   !.existingGroups = rows]]
    /\ gen' = [gen EXCEPT
                 !.clean = [d \in Slots |->
                              d = c /\ \A e \in Slots \ {c} : ~InFlight(calls[e])],
                 !.follows[c] = <<listId, groupBy>> \in gen.settled]
    /\ UNCHANGED <<reply, workload, listGroups, filters, stages, users, nextId, nextFilterId, found>>

\* lines 81-84: the first findAll rejects
StartGenerateFail(c, listId, ignoreCompleted, groupBy) ==
    /\ Admit
    /\ listId \in workload.lists /\ groupBy = workload.groupBy
    /\ Free(c)
    /\ budget > 1
    /\ budget' = budget - 2
    /\ calls' = [calls EXCEPT ![c] =
                   [Idle EXCEPT !.pc = "error", !.listId = listId,
                                !.groupBy = groupBy,
                                !.ignoreCompleted = ignoreCompleted,
                                !.err = "findAll"]]
    /\ gen' = [Step(c) EXCEPT !.follows[c] = FALSE]
    /\ UNCHANGED <<reply, workload, listGroups, filters, stages, users, nextId, nextFilterId, found>>

\* a strategy that leaves the completed stages out when the request ignores
\* them
CardGroupsOpen(call) ==
    CASE call.groupBy = "LIST_STAGE" ->
            {IF call.ignoreCompleted
             THEN SelectSeq(generateGroupsByListStage(call.listId),
                            LAMBDA g : \E s \in StagesFindBy(call.listId, FALSE) :
                                          s.id = g.entityId)
             ELSE generateGroupsByListStage(call.listId)}
      [] call.groupBy = "ASSIGNEES" ->
            {generateGroupsByAssignees(us) : us \in UsersFindAll(call.listId)}
      [] call.groupBy = "DUE_DATE" -> {generateGroupsByDueDate}
      [] OTHER -> {<<DEFAULT_GROUP>>}

\* lines 88-100: the generated groups that the strategy may yield
CardGroups(call) ==
    CASE call.groupBy = "LIST_STAGE" -> {generateGroupsByListStage(call.listId)}
      [] call.groupBy = "ASSIGNEES" ->
            {generateGroupsByAssignees(us) : us \in UsersFindAll(call.listId)}
      [] call.groupBy = "DUE_DATE" -> {generateGroupsByDueDate}
      [] OTHER -> {<<DEFAULT_GROUP>>}

\* how many of the first n generated groups have no match (and, for the
\* Filter sequence, carry a filter)
RECURSIVE Missing(_, _, _, _)
Missing(existingGroups, cardGroups, n, filtered) ==
    IF n = 0 THEN 0
    ELSE Missing(existingGroups, cardGroups, n - 1, filtered)
         + (IF \/ Check(existingGroups, cardGroups[n])
               \/ (filtered /\ ~Has(cardGroups[n], "filter"))
            THEN 0 ELSE 1)

\* a fan-out that asks for the filter of a missing group together with the
\* group, without waiting for the save
FanOutEager(call, cardGroups) ==
    [call EXCEPT
       !.pc = "fanout",
       !.cardGroups = cardGroups,
       !.task = [i \in 1..Len(cardGroups) |->
                   IF Check(call.existingGroups, cardGroups[i]) THEN "exists"
                   ELSE IF Has(cardGroups[i], "filter") THEN "filtering"
                   ELSE "saving"],
       !.gid = [i \in 1..Len(cardGroups) |->
                  nextId + Missing(call.existingGroups, cardGroups, i - 1, FALSE)],
       !.fid = [i \in 1..Len(cardGroups) |->
                  nextFilterId + Missing(call.existingGroups, cardGroups, i - 1, TRUE)]]

\* lines 103-140, up to the first await of every promise: a generated group
\* with a match resolves at once; for the others this.create has called
\* repository.save
FanOut(call, cardGroups) ==
    [call EXCEPT
       !.pc = "fanout",
       !.cardGroups = cardGroups,
       !.task = [i \in 1..Len(cardGroups) |->
                   IF Check(call.existingGroups, cardGroups[i])
                   THEN "exists" ELSE "saving"],
       !.gid = [i \in 1..Len(cardGroups) |->
                  nextId + Missing(call.existingGroups, cardGroups, i - 1, FALSE)],
       !.fid = [i \in 1..Len(cardGroups) |->
                  nextFilterId + Missing(call.existingGroups, cardGroups, i - 1, TRUE)]]

\* lines 86-140: the strategy's lookup answers and the fan-out starts
Strategy(c) ==
    /\ calls[c].pc = "strategy"
    /\ \E cardGroups \in CardGroups(calls[c]) :
          /\ calls' = [calls EXCEPT ![c] = FanOut(calls[c], cardGroups)]
          /\ nextId' = nextId
                + Missing(calls[c].existingGroups, cardGroups, Len(cardGroups), FALSE)
          /\ nextFilterId' = nextFilterId
                + Missing(calls[c].existingGroups, cardGroups, Len(cardGroups), TRUE)
    /\ gen' = Step(c)
    /\ UNCHANGED <<reply, workload, listGroups, filters, stages, users, budget, found>>

\* lines 90, 93: the stage lookup or the user lookup rejects
StrategyFail(c) ==
    /\ calls[c].pc = "strategy"
    /\ calls[c].groupBy \in {"LIST_STAGE", "ASSIGNEES"}
    /\ Event
    /\ calls' = [calls EXCEPT ![c].pc = "error",
                              ![c].err = IF calls[c].groupBy = "LIST_STAGE"
                                         THEN "listStagesService.findAll"
                                         ELSE "usersService.findAll"]
    /\ gen' = Step(c)
    /\ UNCHANGED <<reply, workload, listGroups, filters, stages, users, nextId, nextFilterId, found>>

\* repository.save answers, and the new group replaces the stored groups of
\* the same entity
SaveGroupReplacing(c, i) ==
    /\ calls[c].pc = "fanout"
    /\ i \in 1..Len(calls[c].task)
    /\ calls[c].task[i] = "saving"
    /\ LET new == NewGroup(calls[c].gid[i], calls[c].cardGroups[i],
                           calls[c].groupBy, calls[c].listId)
       IN  listGroups' =
              {g \in listGroups : ~(/\ g.listId = new.listId /\ g.type = new.type
                                    /\ g.entityId = new.entityId
                                    /\ g.entityType = new.entityType)}
              \cup {new}
    /\ calls' = [calls EXCEPT ![c].task[i] =
                   IF Has(calls[c].cardGroups[i], "filter")
                   THEN "filtering" ELSE "resolved"]
    /\ gen' = Step(c)
    /\ UNCHANGED <<reply, workload, filters, stages, users, nextId, nextFilterId, budget, found>>

\* repository.save answers, but a group with the key of a stored group of
\* the list and strategy is not inserted
SaveGroupOnce(c, i) ==
    /\ calls[c].pc = "fanout"
    /\ i \in 1..Len(calls[c].task)
    /\ calls[c].task[i] = "saving"
    /\ LET new == NewGroup(calls[c].gid[i], calls[c].cardGroups[i],
                           calls[c].groupBy, calls[c].listId)
       IN  listGroups' =
              IF \E g \in listGroups :
                    /\ g.listId = new.listId /\ g.type = new.type
                    /\ g.entityId = new.entityId /\ g.entityType = new.entityType
                    /\ g.name = new.name
              THEN listGroups ELSE listGroups \cup {new}
    /\ calls' = [calls EXCEPT ![c].task[i] =
                   IF Has(calls[c].cardGroups[i], "filter")
                   THEN "filtering" ELSE "resolved"]
    /\ gen' = Step(c)
    /\ UNCHANGED <<reply, workload, filters, stages, users, nextId, nextFilterId, budget, found>>

\* lines 42-47, 114-134: repository.save answers; then the filter is asked
\* for, or the promise resolves
SaveGroup(c, i) ==
    /\ calls[c].pc = "fanout"
    /\ i \in 1..Len(calls[c].task)
    /\ calls[c].task[i] = "saving"
    /\ listGroups' = listGroups \cup
          {NewGroup(calls[c].gid[i], calls[c].cardGroups[i],
                    calls[c].groupBy, calls[c].listId)}
    /\ calls' = [calls EXCEPT ![c].task[i] =
                   IF Has(calls[c].cardGroups[i], "filter")
                   THEN "filtering" ELSE "resolved"]
    /\ gen' = Step(c)
    /\ UNCHANGED <<reply, workload, filters, stages, users, nextId, nextFilterId, budget, found>>

\* repository.save rejects and the rejection reaches the caller
SaveGroupFailSurfaces(c, i) ==
    /\ calls[c].pc = "fanout"
    /\ i \in 1..Len(calls[c].task)
    /\ calls[c].task[i] = "saving"
    /\ Event
    /\ calls' = [calls EXCEPT ![c].task[i] = "saveFailed", ![c].pc = "error",
                              ![c].err = "repository.save"]
    /\ gen' = Step(c)
    /\ UNCHANGED <<reply, workload, listGroups, filters, stages, users, nextId, nextFilterId, found>>

\* repository.save rejects and the creations still waiting are given up
SaveGroupFailAborts(c, i) ==
    /\ calls[c].pc = "fanout"
    /\ i \in 1..Len(calls[c].task)
    /\ calls[c].task[i] = "saving"
    /\ Event
    /\ calls' = [calls EXCEPT ![c].task =
                   [j \in 1..Len(calls[c].task) |->
                      IF j = i \/ calls[c].task[j] \in {"saving", "filtering"}
                      THEN "saveFailed" ELSE calls[c].task[j]]]
    /\ gen' = Step(c)
    /\ UNCHANGED <<reply, workload, listGroups, filters, stages, users, nextId, nextFilterId, found>>

\* lines 114-119: repository.save rejects; the rejection has no handler and
\* resolve is never called
SaveGroupFail(c, i) ==
    /\ calls[c].pc = "fanout"
    /\ i \in 1..Len(calls[c].task)
    /\ calls[c].task[i] = "saving"
    /\ Event
    /\ calls' = [calls EXCEPT ![c].task[i] = "saveFailed"]
    /\ gen' = Step(c)
    /\ UNCHANGED <<reply, workload, listGroups, filters, stages, users, nextId, nextFilterId, found>>

\* lines 120-130: filtersService.create answers and the promise resolves
CreateFilter(c, i) ==
    /\ calls[c].pc = "fanout"
    /\ i \in 1..Len(calls[c].task)
    /\ calls[c].task[i] = "filtering"
    /\ filters' = filters \cup
          {NewFilter(calls[c].fid[i], calls[c].gid[i], calls[c].cardGroups[i])}
    /\ calls' = [calls EXCEPT ![c].task[i] = "resolved"]
    /\ gen' = Step(c)
    /\ UNCHANGED <<reply, workload, listGroups, stages, users, nextId, nextFilterId, budget, found>>

\* lines 121-130: filtersService.create rejects; no handler, no resolve
CreateFilterFail(c, i) ==
    /\ calls[c].pc = "fanout"
    /\ i \in 1..Len(calls[c].task)
    /\ calls[c].task[i] = "filtering"
    /\ Event
    /\ calls' = [calls EXCEPT ![c].task[i] = "filterFailed"]
    /\ gen' = Step(c)
    /\ UNCHANGED <<reply, workload, listGroups, filters, stages, users, nextId, nextFilterId, found>>

\* does the request go on to the stage lookup of lines 149-159
Filtering(call) == call.groupBy = "LIST_STAGE" /\ call.ignoreCompleted

\* lines 142-147, 161: allSettled returns and the second findAll answers
Refetch(c) ==
    /\ calls[c].pc = "fanout"
    /\ AllSettled(calls[c])
    /\ \E rows \in findAll(calls[c].listId, calls[c].groupBy) :
          calls' = [calls EXCEPT ![c].finalGroups = rows,
                                 ![c].pc = IF Filtering(calls[c])
                                           THEN "stagelookup" ELSE "done"]
    /\ gen' = IF Filtering(calls[c]) THEN Step(c) ELSE Settle(c)
    /\ UNCHANGED <<reply, workload, listGroups, filters, stages, users, nextId, nextFilterId,
                   budget, found>>

\* lines 144-147: the second findAll rejects
RefetchFail(c) ==
    /\ calls[c].pc = "fanout"
    /\ AllSettled(calls[c])
    /\ Event
    /\ calls' = [calls EXCEPT ![c].pc = "error", ![c].err = "findAll"]
    /\ gen' = Step(c)
    /\ UNCHANGED <<reply, workload, listGroups, filters, stages, users, nextId, nextFilterId, found>>

\* lines 154-158
KeepOpen(finalGroups, listStages) ==
    SelectSeq(finalGroups,
              LAMBDA group : group.name \in {listStage.name : listStage \in listStages})

\* lines 149-161: findBy answers and the groups are filtered by name
IgnoreCompleted(c) ==
    /\ calls[c].pc = "stagelookup"
    /\ calls' = [calls EXCEPT
                   ![c].finalGroups = KeepOpen(calls[c].finalGroups,
                                               StagesFindBy(calls[c].listId, FALSE)),
                   ![c].pc = "done"]
    /\ gen' = Settle(c)
    /\ UNCHANGED <<reply, workload, listGroups, filters, stages, users, nextId, nextFilterId,
                   budget, found>>

\* lines 150-152: findBy rejects
IgnoreCompletedFail(c) ==
    /\ calls[c].pc = "stagelookup"
    /\ Event
    /\ calls' = [calls EXCEPT ![c].pc = "error",
                              ![c].err = "listStagesService.findBy"]
    /\ gen' = Step(c)
    /\ UNCHANGED <<reply, workload, listGroups, filters, stages, users, nextId, nextFilterId, found>>

---------------------------------------------------------------------------
(* The other requests *)

DirectDtos ==
    {[name |-> "All", type |-> "ALL", listId |-> 1],
     [name |-> "Todo", type |-> "LIST_STAGE", listId |-> 1,
      entityId |-> 1, entityType |-> "LIST_STAGE", order |-> 1],
     [name |-> "Today", type |-> "DUE_DATE", listId |-> 2, order |-> 2]}

\* lines 42-47: create called by a client
Create(createListGroupDto) ==
    /\ Admit
    /\ Event
    /\ listGroups' = listGroups \cup
          {[NewGroup(nextId, createListGroupDto, createListGroupDto.type,
                     createListGroupDto.listId)
              EXCEPT !.isExpanded = Column(createListGroupDto, "isExpanded", TRUE)]}
    /\ nextId' = nextId + 1
    /\ gen' = [Step(0) EXCEPT !.direct = @ \cup {<<createListGroupDto.listId,
                                                   createListGroupDto.type>>}]
    /\ UNCHANGED <<reply, workload, filters, stages, users, calls, nextFilterId, found>>

Patches == {[name |-> "Today"], [order |-> 9, isExpanded |-> FALSE]}

\* a merge that also puts the colour back to its default
MergeReset(listGroup, updateListGroupDto) ==
    [f \in DOMAIN listGroup |->
       IF Has(updateListGroupDto, f) THEN updateListGroupDto[f]
       ELSE IF f = "color" THEN NullStr ELSE listGroup[f]]

\* repository.merge: the fields the patch has overwrite the entity's
Merge(listGroup, updateListGroupDto) ==
    [f \in DOMAIN listGroup |->
       IF Has(updateListGroupDto, f) THEN updateListGroupDto[f] ELSE listGroup[f]]

\* lines 339-349: findOne called by a client
FindOne(id) ==
    /\ Admit
    /\ Event
    /\ reply' = IF \E listGroup \in listGroups : listGroup.id = id
                THEN Returned("findOne", CHOOSE listGroup \in listGroups : listGroup.id = id)
                ELSE NotFound("findOne")
    /\ gen' = Step(0)
    /\ UNCHANGED <<workload, listGroups, filters, stages, users, calls, nextId,
                   nextFilterId, found>>

\* an update that saves the patch as a new group when no group has the id
UpdateUpsert(id, updateListGroupDto) ==
    /\ Admit
    /\ Event
    /\ \/ /\ \A listGroup \in listGroups : listGroup.id # id
          /\ listGroups' = listGroups \cup
                {[NewGroup(id, [name |-> "", type |-> "ALL"], "ALL", 1)
                    EXCEPT !.isExpanded = Column(updateListGroupDto, "isExpanded", TRUE)]}
          /\ reply' = NotFound("update")
          /\ gen' = Step(0)
       \/ \E listGroup \in listGroups :
             /\ listGroup.id = id
             /\ listGroups' = (listGroups \ {listGroup})
                                 \cup {Merge(listGroup, updateListGroupDto)}
             /\ reply' = Returned("update", Merge(listGroup, updateListGroupDto))
             /\ gen' = [Unsettle({<<listGroup.listId, listGroup.type>>})
                           EXCEPT !.updated = @ \cup {<<listGroup.listId, listGroup.type>>}]
    /\ UNCHANGED <<workload, filters, stages, users, calls, nextId, nextFilterId, found>>

\* lines 339-358: update; findOne throws when no group has the id, and then
\* nothing is merged or saved
Update(id, updateListGroupDto) ==
    /\ Admit
    /\ Event
    /\ \/ /\ \A listGroup \in listGroups : listGroup.id # id
          /\ reply' = NotFound("update")
          /\ gen' = Step(0)
          /\ UNCHANGED listGroups
       \/ \E listGroup \in listGroups :
             /\ listGroup.id = id
             /\ listGroups' = (listGroups \ {listGroup})
                                 \cup {Merge(listGroup, updateListGroupDto)}
             /\ reply' = Returned("update", Merge(listGroup, updateListGroupDto))
             /\ gen' = [Unsettle({<<listGroup.listId, listGroup.type>>})
                           EXCEPT !.updated = @ \cup {<<listGroup.listId, listGroup.type>>}]
    /\ UNCHANGED <<workload, filters, stages, users, calls, nextId, nextFilterId, found>>

\* lines 49-74: findAll called by a client
FindAllQuery(listId, groupBy) ==
    /\ Admit /\ groupBy \in {workload.groupBy, ""}
    /\ Event
    /\ \E rows \in findAll(listId, groupBy) :
          found' = [listId |-> listId, groupBy |-> groupBy, rows |-> rows]
    /\ gen' = Step(0)
    /\ UNCHANGED <<reply, workload, listGroups, filters, stages, users, calls, nextId, nextFilterId>>

---------------------------------------------------------------------------
(* The collaborators' data changes under the service *)

RenameStage(id, name) ==
    /\ Admit /\ workload.groupBy = "LIST_STAGE"
    /\ Event
    /\ \E s \in stages :
          /\ s.id = id
          /\ s.name # name
          /\ stages' = (stages \ {s}) \cup {[s EXCEPT !.name = name]}
    /\ gen' = Unsettle(Lists \X {"LIST_STAGE"})
    /\ UNCHANGED <<reply, workload, listGroups, filters, users, calls, nextId, nextFilterId, found>>

CompleteStage(id) ==
    /\ Admit /\ workload.groupBy = "LIST_STAGE"
    /\ Event
    /\ \E s \in stages :
          /\ s.id = id
          /\ stages' = (stages \ {s}) \cup {[s EXCEPT !.isCompleted = ~s.isCompleted]}
    /\ gen' = Unsettle(Lists \X {"LIST_STAGE"})
    /\ UNCHANGED <<reply, workload, listGroups, filters, users, calls, nextId, nextFilterId, found>>

\* two stages of a list change places
SwapStages(id1, id2) ==
    /\ Admit /\ workload.groupBy = "LIST_STAGE"
    /\ Event
    /\ id1 < id2
    /\ \E s \in stages, t \in stages :
          /\ s.id = id1 /\ t.id = id2 /\ s.listId = t.listId
          /\ stages' = (stages \ {s, t})
                \cup {[s EXCEPT !.order = t.order], [t EXCEPT !.order = s.order]}
    /\ gen' = Unsettle(Lists \X {"LIST_STAGE"})
    /\ UNCHANGED <<reply, workload, listGroups, filters, users, calls, nextId, nextFilterId, found>>

AddStage(listId, name) ==
    /\ Admit /\ workload.groupBy = "LIST_STAGE"
    /\ Event
    /\ LET id == 1 + Cardinality(stages)
           order == 1 + Cardinality({s \in stages : s.listId = listId})
       IN  /\ \A s \in stages : s.id # id
           /\ stages' = stages \cup {Stage(id, listId, name, order, FALSE)}
    /\ gen' = Unsettle(Lists \X {"LIST_STAGE"})
    /\ UNCHANGED <<reply, workload, listGroups, filters, users, calls, nextId, nextFilterId, found>>

RemoveStage(id) ==
    /\ Admit /\ workload.groupBy = "LIST_STAGE"
    /\ Event
    /\ \E s \in stages : s.id = id /\ stages' = stages \ {s}
    /\ gen' = Unsettle(Lists \X {"LIST_STAGE"})
    /\ UNCHANGED <<reply, workload, listGroups, filters, users, calls, nextId, nextFilterId, found>>

AddUser(listId) ==
    /\ Admit /\ workload.groupBy = "ASSIGNEES"
    /\ Event
    /\ LET id == 1 + Cardinality(users)
       IN  /\ \A u \in users : u.id # id
           /\ users' = users \cup {User(id, {listId}, "Kim")}
    /\ gen' = Unsettle(Lists \X {"ASSIGNEES"})
    /\ UNCHANGED <<reply, workload, listGroups, filters, stages, calls, nextId, nextFilterId, found>>

RemoveUser(id) ==
    /\ Admit /\ workload.groupBy = "ASSIGNEES"
    /\ Event
    /\ \E u \in users : u.id = id /\ users' = users \ {u}
    /\ gen' = Unsettle(Lists \X {"ASSIGNEES"})
    /\ UNCHANGED <<reply, workload, listGroups, filters, stages, calls, nextId, nextFilterId, found>>

RenameUser(id, lastName) ==
    /\ Admit /\ workload.groupBy = "ASSIGNEES"
    /\ Event
    /\ \E u \in users :
          /\ u.id = id
          /\ u.lastName # lastName
          /\ users' = (users \ {u}) \cup {[u EXCEPT !.lastName = lastName]}
    /\ gen' = Unsettle(Lists \X {"ASSIGNEES"})
    /\ UNCHANGED <<reply, workload, listGroups, filters, stages, calls, nextId, nextFilterId, found>>

---------------------------------------------------------------------------
(* Specification *)

\* the ids that the sequences can have handed out
Ids == 1..(4 * (MaxEvents + MaxRaceEvents))
StageIds == 1..(2 + MaxEvents + MaxRaceEvents)
UserIds == 1..(1 + MaxEvents + MaxRaceEvents)

Generate ==
    \/ \E c \in Slots : Strategy(c)
    \/ \E c \in Slots : StrategyFail(c)
    \/ \E c \in Slots, i \in 1..4 : SaveGroup(c, i)
    \/ \E c \in Slots, i \in 1..4 : SaveGroupFail(c, i)
    \/ \E c \in Slots, i \in 1..4 : CreateFilter(c, i)
    \/ \E c \in Slots, i \in 1..4 : CreateFilterFail(c, i)
    \/ \E c \in Slots : Refetch(c)
    \/ \E c \in Slots : RefetchFail(c)
    \/ \E c \in Slots : IgnoreCompleted(c)
    \/ \E c \in Slots : IgnoreCompletedFail(c)

\* the requests of a run come one after the other
Next ==
    \/ \E c \in Slots, l \in Lists, ic \in BOOLEAN, s \in Strategies :
          StartGenerate(c, l, ic, s)
    \/ \E c \in Slots, l \in Lists, ic \in BOOLEAN, s \in Strategies :
          StartGenerateFail(c, l, ic, s)
    \/ Generate
    \/ \E dto \in DirectDtos : Create(dto)
    \/ \E id \in Ids, patch \in Patches : Update(id, patch)
    \/ \E l \in Lists, s \in Strategies \cup {""} : FindAllQuery(l, s)
    \/ \E id \in StageIds, name \in StageNames : RenameStage(id, name)
    \/ \E id \in StageIds : CompleteStage(id)
    \/ \E id1 \in StageIds, id2 \in StageIds : SwapStages(id1, id2)
    \/ \E l \in Lists, name \in StageNames : AddStage(l, name)
    \/ \E id \in StageIds : RemoveStage(id)
    \/ \E l \in Lists : AddUser(l)
    \/ \E id \in UserIds : RemoveUser(id)
    \/ \E id \in UserIds, lastName \in LastNames : RenameUser(id, lastName)

Init ==
    /\ Start
    /\ workload \in {[groupBy |-> s, lists |-> Lists, overlap |-> FALSE] : s \in Strategies}
    /\ budget = MaxEvents

Spec == Init /\ [][Next]_vars

\* generateGroups requests for one list overlap, while the stages and the
\* users change; the strategy is one whose fan-out is short
RaceInit ==
    /\ Start
    /\ workload \in {[groupBy |-> s, lists |-> {1}, overlap |-> TRUE]
                       : s \in {"ALL", "LIST_STAGE", "ASSIGNEES"}}
    /\ budget = MaxRaceEvents

RaceNext ==
    \/ \E c \in Slots, l \in Lists, ic \in BOOLEAN, s \in Strategies :
          StartGenerate(c, l, ic, s)
    \/ \E c \in Slots, l \in Lists, ic \in BOOLEAN, s \in Strategies :
          StartGenerateFail(c, l, ic, s)
    \/ Generate
    \/ \E id \in StageIds, name \in StageNames : RenameStage(id, name)
    \/ \E id \in StageIds : CompleteStage(id)
    \/ \E id1 \in StageIds, id2 \in StageIds : SwapStages(id1, id2)
    \/ \E l \in Lists, name \in StageNames : AddStage(l, name)
    \/ \E id \in StageIds : RemoveStage(id)
    \/ \E l \in Lists : AddUser(l)
    \/ \E id \in UserIds : RemoveUser(id)
    \/ \E id \in UserIds, lastName \in LastNames : RenameUser(id, lastName)

RaceSpec == RaceInit /\ [][RaceNext]_vars

\* clients read and change the groups of a list one by one, between
\* generateGroups requests
ClientInit ==
    /\ Start
    /\ workload = [groupBy |-> "LIST_STAGE", lists |-> {1}, overlap |-> FALSE]
    /\ budget = MaxClientEvents

ClientNext ==
    \/ \E c \in Slots, l \in Lists, ic \in BOOLEAN, s \in Strategies :
          StartGenerate(c, l, ic, s)
    \/ \E c \in Slots, l \in Lists, ic \in BOOLEAN, s \in Strategies :
          StartGenerateFail(c, l, ic, s)
    \/ Generate
    \/ \E dto \in DirectDtos : Create(dto)
    \/ \E id \in Ids, patch \in Patches : Update(id, patch)
    \/ \E id \in Ids : FindOne(id)
    \/ \E l \in Lists, s \in Strategies \cup {""} : FindAllQuery(l, s)

ClientSpec == ClientInit /\ [][ClientNext]_vars

---------------------------------------------------------------------------
(* Properties *)

Done(c) == calls[c].pc = "done"

\* the request found a match for every generated group: it created nothing
CreatedNothing(c) ==
    \A i \in 1..Len(calls[c].task) : calls[c].task[i] = "exists"

\* C1: a generateGroups request that runs undisturbed right after an
\* undisturbed one for the same (list, strategy), with no update of the groups
\* and no change of the stages or users in between, creates no ListGroup row
\* and no Filter row.
C1_Idempotent ==
    \A c \in Slots :
       (Done(c) /\ gen.follows[c] /\ gen.clean[c]) => CreatedNothing(c)

\* a second DUE_DATE request has returned, and all four groups were there
C1_Witness ==
    \E c \in Slots :
       /\ Done(c) /\ gen.follows[c] /\ gen.clean[c]
       /\ calls[c].groupBy = "DUE_DATE"
       /\ Len(calls[c].task) = 4
       /\ Cardinality(listGroups) = 4

\* the reconciliation key of a stored group
Key(g) == <<g.entityId, g.entityType, g.name>>

\* C2: no two ListGroup rows of one list and one strategy have the same
\* (entityId, entityType, name).
C2_UniqueKey ==
    \A g \in listGroups, h \in listGroups :
       (g # h /\ g.listId = h.listId /\ g.type = h.type) => Key(g) # Key(h)

\* C3: once every persistence call of the fan-out has settled, by success or
\* by failure, generateGroups goes on to the final findAll.
C3_GoesOn ==
    \A c \in Slots :
       (calls[c].pc = "fanout" /\ Pending(calls[c]) = {}) => AllSettled(calls[c])

\* C4 as claimed: generateGroups fails only when the first findAll, the
\* final findAll or a stage lookup fails.
C4_OnlyFetchAndStages ==
    \A c \in Slots :
       calls[c].pc = "error" =>
          calls[c].err \in {"findAll", "listStagesService.findAll",
                            "listStagesService.findBy"}

\* C4: generateGroups fails only when the first findAll, the final findAll,
\* a stage lookup or the user lookup fails; a failed creation of a group or
\* of a filter never fails the request.
C4_FailurePolicy ==
    \A c \in Slots :
       /\ calls[c].pc = "error" =>
             /\ calls[c].err \in {"findAll", "listStagesService.findAll",
                                  "listStagesService.findBy", "usersService.findAll"}
             /\ Failed(calls[c]) = {}
       /\ Failed(calls[c]) # {} => calls[c].pc = "fanout"

\* the user lookup has failed the request
C4_Witness ==
    \E c \in Slots :
       calls[c].pc = "error" /\ calls[c].err = "usersService.findAll"

\* the groups a request returned, and what it worked from
Result(c) == calls[c].finalGroups
Generated(c) == calls[c].cardGroups
Existing(c) == calls[c].existingGroups
Pair(c) == <<calls[c].listId, calls[c].groupBy>>

\* the returned group r carries exactly the filter of the generated group
HasFilterOf(r, generatedGroup) ==
    /\ r.filter # <<>>
    /\ r.filter[1].entityId = r.id
    /\ r.filter[1].entityType = "LIST_GROUP"
    /\ r.filter[1].where = generatedGroup.filter.where

\* C5: with no failure anywhere and no group created by a client, a
\* LIST_STAGE request without ignoreCompleted returns exactly one
\* group per stage, with the stage's id, type and name and the filter
\* cardLists.listStageId eq stage id, plus the groups that were there before
\* and match no stage.
C5_StageGroups ==
    \A c \in Slots :
       (/\ Done(c) /\ calls[c].groupBy = "LIST_STAGE" /\ ~calls[c].ignoreCompleted
        /\ Pair(c) \notin gen.direct
        /\ \A d \in Slots : Failed(calls[d]) = {} /\ calls[d].pc # "error") =>
          LET r == Result(c)
              cg == Generated(c)
              of(i) == {j \in 1..Len(r) : Matches(r[j], cg[i])}
              other == {j \in 1..Len(r) : \A i \in 1..Len(cg) : ~Matches(r[j], cg[i])}
          IN  /\ \A i \in 1..Len(cg) :
                    /\ Cardinality(of(i)) = 1
                    /\ \A j \in of(i) :
                          /\ r[j].entityId = cg[i].entityId
                          /\ r[j].entityType = "LIST_STAGE"
                          /\ HasFilterOf(r[j], cg[i])
                          /\ cg[i].filter.where.and =
                                <<[field |-> "cardLists.listStageId", operator |-> "eq",
                                   value |-> <<"num", cg[i].entityId>>]>>
              /\ \A j \in other :
                    \E k \in 1..Len(Existing(c)) : Existing(c)[k].id = r[j].id
              /\ Len(r) = Len(cg) + Cardinality(other)

\* C6: when a LIST_STAGE request with ignoreCompleted returns, no returned
\* group has the name of a completed stage of the list.
C6_NoCompletedName ==
    [][\A c \in Slots :
          (/\ calls[c].pc = "stagelookup" /\ calls'[c].pc = "done"
           /\ Pair(c) \notin gen.direct) =>
             \A j \in 1..Len(calls'[c].finalGroups) :
                calls'[c].finalGroups[j].name \notin
                   {s.name : s \in StagesFindBy(calls[c].listId, TRUE)}]_vars

DueDateNames == <<"Past Due", "Today", "Upcoming", "No Due Date">>

FourDueDateGroups(r) ==
    /\ Len(r) = 4
    /\ \A i \in 1..4 : r[i].name = DueDateNames[i] /\ r[i].order = i

\* C7 as claimed: a DUE_DATE request returns the four groups in order,
\* whatever generateGroups and update requests came before.
C7_AlwaysFour ==
    \A c \in Slots :
       (Done(c) /\ calls[c].groupBy = "DUE_DATE" /\ Pair(c) \notin gen.direct) =>
          FourDueDateGroups(Result(c))

\* C7: a DUE_DATE request returns exactly the four groups Past Due, Today,
\* Upcoming, No Due Date with orders 1..4, in this order, whatever
\* generateGroups requests came before it one after the other, provided no
\* update has changed a DUE_DATE group of the list.
C7_FourUnlessUpdated ==
    \A c \in Slots :
       (/\ Done(c) /\ calls[c].groupBy = "DUE_DATE"
        /\ Pair(c) \notin gen.direct \cup gen.updated) =>
          FourDueDateGroups(Result(c))

\* a DUE_DATE request has returned after an earlier one lost a group to a
\* failed save
C7_Witness ==
    \E c \in Slots, d \in Slots :
       /\ Done(c) /\ calls[c].groupBy = "DUE_DATE"
       /\ Pair(c) \notin gen.direct \cup gen.updated
       /\ Hung(calls[d]) /\ Pair(d) = Pair(c)

\* the result is one group per generated user group, in their order, and
\* then the "No Assignee" group
AssigneeGroups(r, cg) ==
    /\ Len(r) = Len(cg)
    /\ \A i \in 1..(Len(cg) - 1) :
          /\ r[i].entityType = "USER"
          /\ r[i].entityId = cg[i].entityId
          /\ r[i].name = cg[i].name
          /\ r[i].order = i
          /\ HasFilterOf(r[i], cg[i])
          /\ cg[i].filter.where.and =
                <<[field |-> "users.id", operator |-> "eq",
                   value |-> <<"num", cg[i].entityId>>]>>
    /\ LET last == r[Len(r)]
       IN  /\ last.name = "No Assignee"
           /\ last.entityId = Null /\ last.entityType = NullStr
           /\ HasFilterOf(last, cg[Len(cg)])
           /\ last.filter[1].where.and =
                 <<[field |-> "users.id", operator |-> "isNull", value |-> <<"null">>]>>

\* the users the lookup of request c returned
Members(c) == {Generated(c)[i].entityId : i \in 1..Len(Generated(c))} \ {Null}

\* C8 as claimed: an ASSIGNEES request returns one group per member and
\* then "No Assignee", and nothing else (here: with no failure anywhere and
\* no group updated or created by a client).
C8_MembersAndNoAssignee ==
    \A c \in Slots :
       (/\ Done(c) /\ calls[c].groupBy = "ASSIGNEES"
        /\ Pair(c) \notin gen.direct \cup gen.updated
        /\ \A d \in Slots : Failed(calls[d]) = {}) =>
          /\ Len(Generated(c)) = Cardinality(Members(c)) + 1
          /\ AssigneeGroups(Result(c), Generated(c))

\* C8: on a list with no stored ASSIGNEES group, an ASSIGNEES request
\* returns one group per member (USER, the user's id, order = position + 1,
\* filter users.id eq id) and then one "No Assignee" group (null entity,
\* filter users.id isNull), and nothing else.
C8_FreshMembersAndNoAssignee ==
    \A c \in Slots :
       (Done(c) /\ calls[c].groupBy = "ASSIGNEES" /\ Existing(c) = <<>>) =>
          /\ Len(Generated(c)) = Cardinality(Members(c)) + 1
          /\ AssigneeGroups(Result(c), Generated(c))

\* an ASSIGNEES request on a fresh list has returned two members' groups
C8_Witness ==
    \E c \in Slots :
       /\ Done(c) /\ calls[c].groupBy = "ASSIGNEES" /\ Existing(c) = <<>>
       /\ Len(Result(c)) = 3

\* C9: no step of generateGroups deletes or changes a ListGroup row or a
\* Filter row: the rows stored before the step are stored after it.
C9_OnlyInserts ==
    [][calls' # calls => (listGroups \subseteq listGroups' /\ filters \subseteq filters')]_vars

\* a request has returned, and a group it found that matches no generated
\* group is still stored
C9_Witness ==
    \E c \in Slots :
       /\ Done(c)
       /\ \E k \in 1..Len(Existing(c)) :
             /\ \A i \in 1..Len(Generated(c)) : ~Matches(Existing(c)[k], Generated(c)[i])
             /\ \E g \in listGroups : g.id = Existing(c)[k].id
       /\ \E i \in 1..Len(calls[c].task) : calls[c].task[i] = "resolved"

\* the rows are what findAll(listId, groupBy) has to return
FindAllAnswer(rows, listId, groupBy) ==
    LET wanted == {g \in listGroups :
                     g.listId = listId /\ (groupBy # "" => g.type = groupBy)}
    IN  /\ Len(rows) = Cardinality(wanted)
        /\ \A g \in wanted :
              \E j \in 1..Len(rows) :
                 /\ \A f \in DOMAIN g : rows[j][f] = g[f]
                 /\ IF \E f \in filters : f.entityId = g.id /\ f.entityType = "LIST_GROUP"
                    THEN /\ rows[j].filter # <<>>
                         /\ rows[j].filter[1] \in filters
                         /\ rows[j].filter[1].entityId = g.id
                         /\ rows[j].filter[1].entityType = "LIST_GROUP"
                    ELSE rows[j].filter = <<>>
        /\ \A i \in 1..Len(rows), j \in 1..Len(rows) :
              (i < j /\ rows[i].order # Null /\ rows[j].order # Null) =>
                 rows[i].order <= rows[j].order

\* C10: findAll returns exactly the stored groups of the list (of the given
\* strategy, when one is given), each with its filter if it has one, in
\* ascending order, and changes nothing in storage.
C10_FindAll ==
    [][found' # found =>
          /\ FindAllAnswer(found'.rows, found'.listId, found'.groupBy)
          /\ listGroups' = listGroups /\ filters' = filters]_vars

\* findAll has returned several groups with their filters
C10_Witness ==
    /\ found # <<>>
    /\ Len(found.rows) >= 2
    /\ found.rows[1].filter # <<>>
    /\ found.rows[1].order # found.rows[2].order

\* the stored group with this id, if any
Stored(id) == {listGroup \in listGroups : listGroup.id = id}

\* C11: findOne(id) fails with NotFound when no group has the id and
\* otherwise returns that group; update(id, patch) with an id that no group
\* has fails with NotFound and creates or changes no row.
C11_NotFound ==
    [][/\ \A id \in Ids :
             FindOne(id) =>
                /\ IF Stored(id) = {} THEN reply' = NotFound("findOne")
                   ELSE /\ reply'.op = "findOne" /\ reply'.status = "ok"
                        /\ reply'.group[1] \in Stored(id)
                /\ listGroups' = listGroups /\ filters' = filters
       /\ \A id \in Ids, patch \in Patches :
             (Update(id, patch) /\ Stored(id) = {}) =>
                /\ reply' = NotFound("update")
                /\ listGroups' = listGroups /\ filters' = filters]_vars

\* update has failed with NotFound while other groups are stored
C11_Witness ==
    /\ reply = NotFound("update")
    /\ listGroups # {}

\* C12: update(id, patch) of a stored group gives each field of the patch
\* the patch's value and leaves the group's other fields, every other group
\* and every filter as they were.
C12_UpdateFrame ==
    [][\A id \in Ids, patch \in Patches :
          (Update(id, patch) /\ Stored(id) # {}) =>
             \E old \in Stored(id), new \in listGroups' :
                /\ new.id = id
                /\ \A f \in DOMAIN old :
                      new[f] = IF f \in DOMAIN patch THEN patch[f] ELSE old[f]
                /\ DOMAIN new = DOMAIN old
                /\ listGroups' \ {new} = listGroups \ {old}
                /\ filters' = filters
                /\ reply' = Returned("update", new)]_vars

\* a generated stage group has been renamed by update, next to another group
C12_Witness ==
    /\ reply.op = "update" /\ reply.status = "ok"
    /\ reply.group[1].name = "Today"
    /\ reply.group[1].color = "grey"
    /\ reply.group[1] \in listGroups
    /\ Cardinality(listGroups) >= 2

\* repository.save has answered for task i of request c
Saved(c, i) == calls[c].task[i] \in {"filtering", "resolved", "filterFailed"}

\* two generated groups are the same desired descriptor
SameDescriptor(a, b) ==
    /\ a.name = b.name
    /\ Column(a, "entityId", Null) = Column(b, "entityId", Null)
    /\ Column(a, "entityType", NullStr) = Column(b, "entityType", NullStr)

\* C13: when two generateGroups requests for the same (list, strategy) have
\* both read the existing groups before either created the group of a
\* descriptor, and both saves have answered, two groups with the same
\* (entityId, entityType, name) are stored: nothing in generateGroups
\* prevents the duplicate.
C13_RaceDuplicates ==
    \A c \in Slots, d \in Slots :
       (c # d /\ Pair(c) = Pair(d)) =>
          \A i \in 1..Len(calls[c].task), j \in 1..Len(calls[d].task) :
             (/\ SameDescriptor(Generated(c)[i], Generated(d)[j])
              /\ Saved(c, i) /\ Saved(d, j)) =>
                \E g \in listGroups, h \in listGroups :
                   /\ g.id = calls[c].gid[i] /\ h.id = calls[d].gid[j]
                   /\ g # h
                   /\ g.listId = h.listId /\ g.type = h.type
                   /\ Key(g) = Key(h)

\* two overlapping requests have both returned and left two "All" groups
C13_Witness ==
    /\ \A c \in Slots : Done(c) /\ calls[c].groupBy = "ALL" /\ Existing(c) = <<>>
    /\ \E g \in listGroups, h \in listGroups :
          g.id # h.id /\ g.listId = h.listId /\ g.type = h.type /\ Key(g) = Key(h)

\* the rows that task i of request c has to leave in storage
GroupOf(c, i) ==
    NewGroup(calls[c].gid[i], Generated(c)[i], calls[c].groupBy, calls[c].listId)
FilterOf(c, i) == NewFilter(calls[c].fid[i], calls[c].gid[i], Generated(c)[i])

\* C14: a creation that fails leaves the creations of the other desired
\* groups alone: the step that fails one task changes no other task and no
\* stored row; a task that waits for its save or its filter can still get
\* it, whatever has failed; and a task whose own calls have answered has
\* its ListGroup row stored, and its Filter row when the descriptor carries
\* a filter.
C14_SiblingsGoOn ==
    /\ [](\A c \in Slots : \A i \in 1..Len(calls[c].task) :
            calls[c].pc = "fanout" =>
               /\ calls[c].task[i] = "saving" => ENABLED SaveGroup(c, i)
               /\ calls[c].task[i] = "filtering" => ENABLED CreateFilter(c, i)
               /\ Saved(c, i) => Stored(calls[c].gid[i]) # {}
               /\ (calls[c].task[i] = "resolved" /\ Has(Generated(c)[i], "filter"))
                     => FilterOf(c, i) \in filters)
    /\ [][\A c \in Slots : \A i \in 1..Len(calls[c].task) :
            (/\ calls'[c].pc = "fanout" /\ calls[c].pc = "fanout"
             /\ calls'[c].task[i] \in {"saveFailed", "filterFailed"}
             /\ calls[c].task[i] \notin {"saveFailed", "filterFailed"}) =>
               /\ \A j \in 1..Len(calls[c].task) :
                     j # i => calls'[c].task[j] = calls[c].task[j]
               /\ listGroups' = listGroups /\ filters' = filters]_vars

\* one save of a DUE_DATE request was rejected; the other three groups and
\* their filters are stored
C14_Witness ==
    \E c \in Slots :
       /\ calls[c].groupBy = "DUE_DATE" /\ Hung(calls[c])
       /\ \E i \in 1..4 :
             /\ calls[c].task[i] = "saveFailed"
             /\ \A j \in (1..4) \ {i} :
                   /\ calls[c].task[j] = "resolved"
                   /\ GroupOf(c, j) \in listGroups
                   /\ FilterOf(c, j) \in filters

\* the LIST_GROUP filters of a group
FiltersOf(g) == {f \in filters : f.entityType = "LIST_GROUP" /\ f.entityId = g.id}

\* C15: every stored group has at most one LIST_GROUP filter, every filter
\* refers to a stored group (the filter is created after its group), and no
\* step updates or deletes a filter.
C15_FilterOwnership ==
    /\ [](/\ \A g \in listGroups : Cardinality(FiltersOf(g)) <= 1
          /\ \A f \in filters : Stored(f.entityId) # {})
    /\ [][filters \subseteq filters']_vars

\* two overlapping requests have each stored a group of the same stage, and
\* each group has its own filter
C15_Witness ==
    \E g \in listGroups, h \in listGroups :
       /\ g.id # h.id /\ g.type = "LIST_STAGE" /\ Key(g) = Key(h)
       /\ Cardinality(FiltersOf(g)) = 1 /\ Cardinality(FiltersOf(h)) = 1

\* the stored groups of the request's list and strategy that have the key of
\* the generated group
StoredFor(c, generatedGroup) ==
    {g \in listGroups :
       /\ g.listId = calls[c].listId /\ g.type = calls[c].groupBy
       /\ Key(g) = <<Column(generatedGroup, "entityId", Null),
                     Column(generatedGroup, "entityType", NullStr),
                     generatedGroup.name>>}

\* C16: after a generateGroups request in which creations failed, a request
\* for the same (list, strategy) in which nothing fails leaves every desired
\* descriptor with exactly one stored group of its key (requests one after
\* the other, no group updated or created by a client).
C16_NextRoundRepairs ==
    \A c \in Slots, d \in Slots :
       (/\ Done(c) /\ Hung(calls[d]) /\ Pair(c) = Pair(d)
        /\ Pair(c) \notin gen.direct \cup gen.updated) =>
          \A i \in 1..Len(Generated(c)) :
             Cardinality(StoredFor(c, Generated(c)[i])) = 1

\* the later request has created the group whose save was rejected in the
\* earlier one, and found the others
C16_Witness ==
    \E c \in Slots, d \in Slots :
       /\ Done(c) /\ Hung(calls[d]) /\ Pair(c) = Pair(d)
       /\ Pair(c) \notin gen.direct \cup gen.updated
       /\ Generated(c) = Generated(d)
       /\ \E i \in 1..Len(calls[c].task) :
             calls[d].task[i] = "saveFailed" /\ calls[c].task[i] = "resolved"
       /\ \E i \in 1..Len(calls[c].task) :
             calls[d].task[i] = "resolved" /\ calls[c].task[i] = "exists"

\* the returned group is the group of this stage
GroupOfStage(r, stage) ==
    /\ r.entityType = "LIST_STAGE" /\ r.entityId = stage.id /\ r.name = stage.name

\* C17: when a LIST_STAGE request returns, the groups of two stages of the
\* list come in the stages' current order (no failure anywhere, no group
\* updated or created by a client).
C17_StageOrder ==
    \A c \in Slots :
       (/\ Done(c) /\ gen.clean[c] /\ calls[c].groupBy = "LIST_STAGE"
        /\ Pair(c) \notin gen.direct \cup gen.updated
        /\ \A d \in Slots : Failed(calls[d]) = {} /\ calls[d].pc # "error") =>
          \A s1 \in stages, s2 \in stages :
             (s1.listId = calls[c].listId /\ s2.listId = calls[c].listId
              /\ s1.order < s2.order) =>
                \A a \in 1..Len(Result(c)), b \in 1..Len(Result(c)) :
                   (GroupOfStage(Result(c)[a], s1) /\ GroupOfStage(Result(c)[b], s2))
                      => a < b

\* the same request with the other value of ignoreCompleted
Twin(call) == [call EXCEPT !.ignoreCompleted = ~call.ignoreCompleted]

\* the ListGroup row behind a row that findAll returned
Row(r) == [f \in DOMAIN r \ {"filter"} |-> r[f]]

\* the generated groups of request c that had no match
Unmatched(c) ==
    {i \in 1..Len(Generated(c)) : ~Check(Existing(c), Generated(c)[i])}

\* C18: ignoreCompleted changes only the returned value.  When a request
\* returns, its generated groups are those of the same request with the
\* other value of ignoreCompleted; the stored groups and filters of its list
\* and strategy are the ones it found plus one group, with its filter, per
\* generated group without a match, whatever ignoreCompleted is; and for a
\* strategy other than LIST_STAGE the returned list is the plain result of
\* findAll.
C18_IgnoreCompletedOnlyReturn ==
    \A c \in Slots :
       (Done(c) /\ gen.clean[c]) =>
          LET mine == {g \in listGroups :
                         g.listId = calls[c].listId /\ g.type = calls[c].groupBy}
              found_rows == {Row(Existing(c)[k]) : k \in 1..Len(Existing(c))}
              found_filters == {Existing(c)[k].filter[1] :
                                  k \in {k \in 1..Len(Existing(c)) :
                                            Existing(c)[k].filter # <<>>}}
          IN  /\ Generated(c) \in CardGroups(Twin(calls[c]))
              /\ mine = found_rows \cup {GroupOf(c, i) : i \in Unmatched(c)}
              /\ UNION {FiltersOf(g) : g \in mine} =
                    found_filters \cup
                    {FilterOf(c, i) : i \in {i \in Unmatched(c) :
                                                Has(Generated(c)[i], "filter")}}
              /\ (calls[c].groupBy # "LIST_STAGE" \/ ~calls[c].ignoreCompleted) =>
                    Result(c) \in findAll(calls[c].listId, calls[c].groupBy)

\* a LIST_STAGE request that ignores completed stages has returned only the
\* open stage's group and has stored the groups and filters of both stages
C18_Witness ==
    \E c \in Slots :
       /\ Done(c) /\ gen.clean[c]
       /\ calls[c].groupBy = "LIST_STAGE" /\ calls[c].ignoreCompleted
       /\ Existing(c) = <<>>
       /\ Len(Generated(c)) = 2 /\ Len(Result(c)) = 1
       /\ Cardinality(listGroups) = 2 /\ Cardinality(filters) = 2

\* C19: a generateGroups request for list L and strategy S creates only
\* groups with listId L, type S and isExpanded true, leaves every group of
\* another list or another strategy as it is, and returns only groups with
\* listId L and type S.
C19_Isolation ==
    /\ [](\A c \in Slots : Done(c) =>
            \A j \in 1..Len(Result(c)) :
               /\ Result(c)[j].listId = calls[c].listId
               /\ Result(c)[j].type = calls[c].groupBy)
    /\ [][\A c \in Slots :
            calls'[c] # calls[c] =>
               /\ \A g \in listGroups' \ listGroups :
                     /\ g.listId = calls'[c].listId
                     /\ g.type = calls'[c].groupBy
                     /\ g.isExpanded
               /\ \A g \in listGroups :
                     (g.listId # calls'[c].listId \/ g.type # calls'[c].groupBy)
                        => g \in listGroups']_vars

\* a request has created and returned its groups next to a stored group of
\* another strategy of the same list
C19_Witness ==
    \E c \in Slots :
       /\ Done(c) /\ Result(c) # <<>>
       /\ \E i \in 1..Len(calls[c].task), g \in listGroups :
             /\ calls[c].task[i] = "resolved"
             /\ g.listId = calls[c].listId /\ g.type # calls[c].groupBy
             /\ g.id < calls[c].gid[i]

\* C20: when generateGroups returns, every returned group that matches a
\* generated group carrying a filter has its Filter attached, also when the
\* group was stored by an earlier request whose filter creation failed (no
\* group created by a client).
C20_FiltersComplete ==
    \A c \in Slots :
       (Done(c) /\ Pair(c) \notin gen.direct) =>
          \A j \in 1..Len(Result(c)), i \in 1..Len(Generated(c)) :
             (Matches(Result(c)[j], Generated(c)[i]) /\ Has(Generated(c)[i], "filter"))
                => Result(c)[j].filter # <<>>

====
